---------------------------- MODULE Spec2Model ----------------------------
(***************************************************************************)
(* A model of tsjwt: the token classes (AbstractJSONWebToken,              *)
(* JSONWebToken, DecodedJSONWebToken), the decode pipeline and the         *)
(* validator.                                                              *)
(*                                                                         *)
(* Strings are sequences of one-character strings.  JSON values are tagged *)
(* records.  The platform primitives the code calls (String.trim/indexOf,  *)
(* Buffer base64url, JSON.parse/stringify, crypto.createHmac) are          *)
(* operators that compute what the primitive computes on the inputs of the *)
(* model (see the note at each one).                                       *)
(***************************************************************************)
EXTENDS Integers, Sequences, FiniteSets, TLC

(***************************************************************************)
(* Characters and bytes                                                    *)
(***************************************************************************)

\* The printable ASCII characters, code 32 (space) to 126 (~), in order
\* (the grave accent, code 96, is written <grave>).
Ascii ==
  <<
    " ", "!", "\"", "#", "$", "%", "&", "'", "(", ")", "*", "+", ",", "-", ".", "/",
    "0", "1", "2", "3", "4", "5", "6", "7", "8", "9", ":", ";", "<", "=", ">", "?",
    "@", "A", "B", "C", "D", "E", "F", "G", "H", "I", "J", "K", "L", "M", "N", "O",
    "P", "Q", "R", "S", "T", "U", "V", "W", "X", "Y", "Z", "[", "\\", "]", "^", "_",
    "<grave>", "a", "b", "c", "d", "e", "f", "g", "h", "i", "j", "k", "l", "m", "n", "o",
    "p", "q", "r", "s", "t", "u", "v", "w", "x", "y", "z", "{", "|", "}", "~"
  >>

AsciiSet == { Ascii[i] : i \in 1..Len(Ascii) }

\* The character a decoded byte outside printable ASCII turns into (tab,
\* line feed and carriage return apart): U+FFFD for a byte that is not
\* valid UTF-8, a control character otherwise.  No JSON token contains it.
ReplacementChar == "<U+FFFD>"

\* A function over 1..n as the sequence it is: the same value, stored
\* element by element.
AsSeq(f) == f \o << >>

CodeOf == [ c \in AsciiSet |-> 31 + (CHOOSE i \in 1..Len(Ascii) : Ascii[i] = c) ]

\* Buffer.from(text): the UTF-8 bytes of a string (ASCII in this model).
Utf8Bytes(text) == AsSeq([ i \in 1..Len(text) |-> CodeOf[text[i]] ])

\* buffer.toString(): the string of a byte sequence.
Utf8String(bytes) ==
  AsSeq([ i \in 1..Len(bytes) |->
            IF bytes[i] \in 32..126 THEN Ascii[bytes[i] - 31]
            ELSE IF bytes[i] = 9 THEN "\t"
            ELSE IF bytes[i] = 10 THEN "\n"
            ELSE IF bytes[i] = 13 THEN "\r"
            ELSE ReplacementChar ])

Base64UrlAlphabet ==
  <<
    "A", "B", "C", "D", "E", "F", "G", "H", "I", "J", "K", "L", "M", "N", "O", "P",
    "Q", "R", "S", "T", "U", "V", "W", "X", "Y", "Z", "a", "b", "c", "d", "e", "f",
    "g", "h", "i", "j", "k", "l", "m", "n", "o", "p", "q", "r", "s", "t", "u", "v",
    "w", "x", "y", "z", "0", "1", "2", "3", "4", "5", "6", "7", "8", "9", "-", "_"
  >>

Base64UrlSet == { Base64UrlAlphabet[i] : i \in 1..Len(Base64UrlAlphabet) }

SextetOf ==
  [ c \in Base64UrlSet |->
      (CHOOSE i \in 1..Len(Base64UrlAlphabet) : Base64UrlAlphabet[i] = c) - 1 ]

B64(n) == Base64UrlAlphabet[n + 1]

\* bytes[i], or 0 past the end.
ByteAt(bytes, i) == IF i <= Len(bytes) THEN bytes[i] ELSE 0

\* buffer.toString("base64url"): three bytes give four characters, a rest of
\* one byte two characters, a rest of two bytes three; no padding.
\* Character 4g + p comes from the bytes 3g + 1 .. 3g + 3 of group g.
EncodeBase64Url(bytes) ==
  LET n == Len(bytes)
      count == (n \div 3) * 4
               + (IF n % 3 = 1 THEN 2 ELSE IF n % 3 = 2 THEN 3 ELSE 0)
      b(g, k) == ByteAt(bytes, 3 * g + k)
      char(g, p) ==
        IF p = 0 THEN B64(b(g, 1) \div 4)
        ELSE IF p = 1 THEN B64((b(g, 1) % 4) * 16 + b(g, 2) \div 16)
        ELSE IF p = 2 THEN B64((b(g, 2) % 16) * 4 + b(g, 3) \div 64)
        ELSE B64(b(g, 3) % 64)
  IN  AsSeq([ i \in 1..count |-> char((i - 1) \div 4, (i - 1) % 4) ])

\* The bytes of a sequence of 6-bit values: four give three bytes, a rest
\* of two gives one byte, a rest of three two, a rest of one none.
\* Byte 3g + p comes from the values 4g + 1 .. 4g + 4 of group g.
SextetsToBytes(v) ==
  LET m == Len(v)
      count == (m \div 4) * 3
               + (IF m % 4 = 2 THEN 1 ELSE IF m % 4 = 3 THEN 2 ELSE 0)
      x(g, k) == v[4 * g + k]
      byte(g, p) ==
        IF p = 0 THEN x(g, 1) * 4 + x(g, 2) \div 16
        ELSE IF p = 1 THEN (x(g, 2) % 16) * 16 + x(g, 3) \div 4
        ELSE (x(g, 3) % 4) * 64 + x(g, 4)
  IN  AsSeq([ i \in 1..count |-> byte((i - 1) \div 3, (i - 1) % 3) ])

IsBase64UrlChar(c) == c \in Base64UrlSet

\* Buffer.from(text, "base64url"): never throws; characters outside the
\* alphabet (whitespace, in this model) are skipped, an incomplete last
\* group gives the bytes its bits cover.
DecodeBase64Url(text) ==
  LET kept == SelectSeq(text, IsBase64UrlChar)
  IN  SextetsToBytes(AsSeq([ i \in 1..Len(kept) |-> SextetOf[kept[i]] ]))

(***************************************************************************)
(* JSON values                                                             *)
(***************************************************************************)

\* The value of a property that is absent (JavaScript's undefined).
Undefined == [ t |-> "undefined" ]

JNull == [ t |-> "null" ]

JBool(b) == [ t |-> "boolean", b |-> b ]

JNum(n) == [ t |-> "number", n |-> n ]

JStr(s) == [ t |-> "string", s |-> s ]

JArr(a) == [ t |-> "array", a |-> a ]

\* An object: its members <<key, value>> in insertion order, keys distinct.
JObj(m) == [ t |-> "object", m |-> m ]

Member(k, v) == [ k |-> k, v |-> v ]

HasKey(m, k) == \E i \in 1..Len(m) : m[i].k = k

\* obj[k] = v: an existing key keeps its place, a new key goes last.
PutMember(m, k, v) ==
  IF HasKey(m, k)
  THEN AsSeq([ i \in 1..Len(m) |-> IF m[i].k = k THEN Member(k, v) ELSE m[i] ])
  ELSE Append(m, Member(k, v))

\* value[k], a property read.  Only null (and undefined) have no
\* properties to read: the read throws a TypeError, modelled by the caller
\* through CanReadProperty.  A number, string, boolean or array has no
\* claim-named property: the read gives undefined.
CanReadProperty(value) == value.t \notin { "null", "undefined" }

GetProperty(value, k) ==
  IF value.t = "object" /\ HasKey(value.m, k)
  THEN value.m[CHOOSE i \in 1..Len(value.m) : value.m[i].k = k].v
  ELSE Undefined

(***************************************************************************)
(* JSON.stringify and JSON.parse                                           *)
(*                                                                         *)
(* The JSON texts of the model hold integers, and strings without escape   *)
(* sequences: a fraction, an exponent or a backslash is outside the        *)
(* grammar modelled here and no input of the model contains one.           *)
(***************************************************************************)

Digits == << "0", "1", "2", "3", "4", "5", "6", "7", "8", "9" >>

DigitSet == { Digits[i] : i \in 1..Len(Digits) }

RECURSIVE NatToChars(_)
NatToChars(n) ==
  IF n < 10 THEN << Digits[n + 1] >>
  ELSE Append(NatToChars(n \div 10), Digits[(n % 10) + 1])

NumberToChars(n) == IF n < 0 THEN << "-" >> \o NatToChars(-n) ELSE NatToChars(n)

Quote(s) == << "\"" >> \o s \o << "\"" >>

RECURSIVE Stringify(_)
RECURSIVE StringifyMembers(_, _)
RECURSIVE StringifyElements(_, _)
\* JSON.stringify(value): no whitespace, members in insertion order, a
\* member whose value is undefined left out, an undefined array element
\* written null.
Stringify(value) ==
  CASE value.t = "null" -> << "n", "u", "l", "l" >>
    [] value.t = "boolean" ->
         IF value.b THEN << "t", "r", "u", "e" >>
         ELSE << "f", "a", "l", "s", "e" >>
    [] value.t = "number" -> NumberToChars(value.n)
    [] value.t = "string" -> Quote(value.s)
    [] value.t = "array" ->
         << "[" >> \o StringifyElements(value.a, 1) \o << "]" >>
    [] value.t = "object" ->
         << "{" >> \o StringifyMembers(value.m, TRUE) \o << "}" >>

StringifyMembers(m, first) ==
  IF Len(m) = 0 THEN << >>
  ELSE IF Head(m).v = Undefined THEN StringifyMembers(Tail(m), first)
  ELSE (IF first THEN << >> ELSE << "," >>)
       \o Quote(Head(m).k) \o << ":" >> \o Stringify(Head(m).v)
       \o StringifyMembers(Tail(m), FALSE)

StringifyElements(a, i) ==
  IF i > Len(a) THEN << >>
  ELSE (IF i = 1 THEN << >> ELSE << "," >>)
       \o (IF a[i] = Undefined THEN Stringify(JNull) ELSE Stringify(a[i]))
       \o StringifyElements(a, i + 1)

IsWhitespace(c) == c \in { " ", "\t", "\n", "\r" }

\* The first index from i on that holds no whitespace (Len(s) + 1: none).
RECURSIVE SkipWhitespace(_, _)
SkipWhitespace(s, i) ==
  IF i <= Len(s) /\ IsWhitespace(s[i]) THEN SkipWhitespace(s, i + 1) ELSE i

RECURSIVE DigitsEnd(_, _)
DigitsEnd(s, i) ==
  IF i <= Len(s) /\ s[i] \in DigitSet THEN DigitsEnd(s, i + 1) ELSE i

RECURSIVE DigitsValue(_, _, _)
DigitsValue(s, from, to) ==
  IF from > to THEN 0
  ELSE DigitsValue(s, from, to - 1) * 10 + (CodeOf[s[to]] - 48)

ParseFail == [ ok |-> FALSE, v |-> JNull, i |-> 0 ]

ParseOk(v, i) == [ ok |-> TRUE, v |-> v, i |-> i ]

HasLiteralAt(s, i, lit) ==
  i + Len(lit) - 1 <= Len(s) /\ SubSeq(s, i, i + Len(lit) - 1) = lit

\* A string token at s[j] = '"'.
ParseString(s, j) ==
  LET closing == { k \in (j + 1)..Len(s) : s[k] = "\"" }
  IN  IF closing = {} THEN ParseFail
      ELSE LET k == CHOOSE x \in closing : \A y \in closing : x <= y
               body == SubSeq(s, j + 1, k - 1)
           IN  IF \E x \in 1..Len(body) :
                     body[x] \in { "\\", "\t", "\n", "\r", ReplacementChar }
               THEN ParseFail
               ELSE ParseOk(JStr(body), k + 1)

\* A number token at s[j], a digit or '-'.
ParseNumber(s, j) ==
  LET neg == s[j] = "-"
      d == IF neg THEN j + 1 ELSE j
  IN  IF d > Len(s) \/ s[d] \notin DigitSet THEN ParseFail
      ELSE LET e == IF s[d] = "0" THEN d + 1 ELSE DigitsEnd(s, d)
               n == DigitsValue(s, d, e - 1)
           IN  IF e <= Len(s) /\ s[e] \in { ".", "e", "E" } THEN ParseFail
               ELSE ParseOk(JNum(IF neg THEN -n ELSE n), e)

RECURSIVE ParseValue(_, _)
RECURSIVE ParseMembers(_, _, _)
RECURSIVE ParseElements(_, _, _)
\* The value that starts at or after s[i]; .i is the index after it.
ParseValue(s, i) ==
  LET j == SkipWhitespace(s, i)
  IN  IF j > Len(s) THEN ParseFail
      ELSE IF s[j] = "{" THEN
        LET a == SkipWhitespace(s, j + 1)
        IN  IF a <= Len(s) /\ s[a] = "}" THEN ParseOk(JObj(<< >>), a + 1)
            ELSE ParseMembers(s, a, << >>)
      ELSE IF s[j] = "[" THEN
        LET a == SkipWhitespace(s, j + 1)
        IN  IF a <= Len(s) /\ s[a] = "]" THEN ParseOk(JArr(<< >>), a + 1)
            ELSE ParseElements(s, a, << >>)
      ELSE IF s[j] = "\"" THEN ParseString(s, j)
      ELSE IF s[j] = "-" \/ s[j] \in DigitSet THEN ParseNumber(s, j)
      ELSE IF HasLiteralAt(s, j, << "n", "u", "l", "l" >>)
        THEN ParseOk(JNull, j + 4)
      ELSE IF HasLiteralAt(s, j, << "t", "r", "u", "e" >>)
        THEN ParseOk(JBool(TRUE), j + 4)
      ELSE IF HasLiteralAt(s, j, << "f", "a", "l", "s", "e" >>)
        THEN ParseOk(JBool(FALSE), j + 5)
      ELSE ParseFail

\* The members of an object from s[a] on (a key is due), m those read so
\* far; a repeated key keeps its first place and takes the last value.
ParseMembers(s, a, m) ==
  LET AfterValue(key, val, d) ==
        IF d > Len(s) THEN ParseFail
        ELSE IF s[d] = "}"
          THEN ParseOk(JObj(PutMember(m, key.v.s, val.v)), d + 1)
        ELSE IF s[d] = ","
          THEN ParseMembers(s, SkipWhitespace(s, d + 1),
                            PutMember(m, key.v.s, val.v))
        ELSE ParseFail
      AfterColon(key, val) ==
        IF ~val.ok THEN ParseFail
        ELSE AfterValue(key, val, SkipWhitespace(s, val.i))
      AfterKey(key, c) ==
        IF ~key.ok THEN ParseFail
        ELSE IF c > Len(s) \/ s[c] # ":" THEN ParseFail
        ELSE AfterColon(key, ParseValue(s, c + 1))
      WithKey(key) ==
        AfterKey(key, IF key.ok THEN SkipWhitespace(s, key.i) ELSE 0)
  IN  IF a > Len(s) \/ s[a] # "\"" THEN ParseFail
      ELSE WithKey(ParseString(s, a))

ParseElements(s, a, elems) ==
  LET AfterValue(val, d) ==
        IF d > Len(s) THEN ParseFail
        ELSE IF s[d] = "]" THEN ParseOk(JArr(Append(elems, val.v)), d + 1)
        ELSE IF s[d] = "," THEN ParseElements(s, d + 1, Append(elems, val.v))
        ELSE ParseFail
      WithValue(val) ==
        IF ~val.ok THEN ParseFail
        ELSE AfterValue(val, SkipWhitespace(s, val.i))
  IN  WithValue(ParseValue(s, a))

\* JSON.parse(text): .ok is FALSE where it throws a SyntaxError.
JsonParse(text) ==
  LET Whole(r) ==
        IF r.ok /\ SkipWhitespace(text, r.i) = Len(text) + 1 THEN r
        ELSE ParseFail
  IN  Whole(ParseValue(text, 1))

(***************************************************************************)
(* Outcomes of a call                                                      *)
(***************************************************************************)

\* A normal return.
Return(value) == [ kind |-> "return", value |-> value ]

\* A thrown error: kind is its class; msg the message text passed to the
\* constructor, arg the characters interpolated at the end of it.
Throw(kind, msg, arg) == [ kind |-> kind, msg |-> msg, arg |-> arg ]

Returned(outcome) == outcome.kind = "return"

\* Reading a property of null throws this, whichever property it is.
TypeErrorOnNull ==
  Throw("TypeError", "Cannot read properties of null", << >>)

RECURSIVE ToTemplateString(_)
RECURSIVE JoinElements(_, _)
\* `${value}` in a template literal; an array gives its elements joined by
\* commas, null and undefined elements giving nothing.
ToTemplateString(value) ==
  CASE value.t = "undefined" ->
         << "u", "n", "d", "e", "f", "i", "n", "e", "d" >>
    [] value.t = "string" -> value.s
    [] value.t = "object" ->
         << "[", "o", "b", "j", "e", "c", "t", " ",
            "O", "b", "j", "e", "c", "t", "]" >>
    [] value.t = "array" -> JoinElements(value.a, 1)
    [] OTHER -> Stringify(value)

JoinElements(a, i) ==
  IF i > Len(a) THEN << >>
  ELSE (IF i = 1 THEN << >> ELSE << "," >>)
       \o (IF a[i].t \in { "null", "undefined" } THEN << >>
           ELSE ToTemplateString(a[i]))
       \o JoinElements(a, i + 1)

(***************************************************************************)
(* Hashing algorithm identifiers                                           *)
(***************************************************************************)

VALID_HASHING_ALGORITHM_IDENTIFIERS ==
  <<
    << "H", "S", "2", "5", "6" >>,
    << "H", "S", "3", "8", "4" >>,
    << "H", "S", "5", "1", "2" >>,
    << "P", "S", "2", "5", "6" >>,
    << "P", "S", "3", "8", "4" >>,
    << "P", "S", "5", "1", "2" >>,
    << "R", "S", "2", "5", "6" >>,
    << "R", "S", "3", "8", "4" >>,
    << "R", "S", "5", "1", "2" >>,
    << "E", "S", "2", "5", "6" >>,
    << "E", "S", "2", "5", "6", "K" >>,
    << "E", "S", "3", "8", "4" >>,
    << "E", "S", "5", "1", "2" >>,
    << "E", "d", "D", "S", "A" >>
  >>

SUPPORTED_HASHING_ALGORITHM_IDENTIFIERS ==
  <<
    << "H", "S", "2", "5", "6" >>,
    << "H", "S", "3", "8", "4" >>,
    << "H", "S", "5", "1", "2" >>
  >>

\* array.includes(value) for an array of primitives: SameValueZero, which
\* an object or an array in the payload never satisfies.
Includes(array, value) ==
  /\ value.t \notin { "object", "array" }
  /\ \E i \in 1..Len(array) : array[i] = value

\* An array of identifier strings as an array of JSON string values.
AsStringValues(ids) == [ i \in 1..Len(ids) |-> JStr(ids[i]) ]

(***************************************************************************)
(* AbstractJSONWebToken                                                    *)
(*                                                                         *)
(* A token object is a record: headers and payload (JSON values), and      *)
(* signature (DecodedJSONWebToken) or secret (JSONWebToken).               *)
(***************************************************************************)

getHeaders(token) == token.headers

getPayload(token) == token.payload

getEncodedHeaders(token) ==
  EncodeBase64Url(Utf8Bytes(Stringify(getHeaders(token))))

\* getEncodedPayload as a copy of getEncodedHeaders that still reads the
\* headers: the fault C3's round trip would show.
getEncodedPayload_OfHeaders(token) ==
  EncodeBase64Url(Utf8Bytes(Stringify(getHeaders(token))))

getEncodedPayload(token) ==
  EncodeBase64Url(Utf8Bytes(Stringify(getPayload(token))))

K_alg == << "a", "l", "g" >>

\* getHashingAlgorithmIdentifier without its test against the valid
\* identifiers: an unknown identifier is then reported as unsupported.
getHashingAlgorithmIdentifier_NoValidTest(token) ==
  LET headers == getHeaders(token)
      alg == GetProperty(headers, K_alg)
  IN  IF ~CanReadProperty(headers) THEN TypeErrorOnNull
      ELSE IF alg = Undefined THEN
        Throw("JWTParsingError",
              "found the 'alg' header field to be undefined", << >>)
      ELSE IF ~Includes(AsStringValues(SUPPORTED_HASHING_ALGORITHM_IDENTIFIERS),
                        alg) THEN
        Throw("JWTParsingError",
              "found the 'alg' header field to specify a valid but unsupported hashing algorithm: ",
              ToTemplateString(alg))
      ELSE Return(alg.s)

getHashingAlgorithmIdentifier(token) ==
  LET headers == getHeaders(token)
      alg == GetProperty(headers, K_alg)
  IN  IF ~CanReadProperty(headers) THEN TypeErrorOnNull
      ELSE IF alg = Undefined THEN
        Throw("JWTParsingError",
              "found the 'alg' header field to be undefined", << >>)
      ELSE IF ~Includes(AsStringValues(VALID_HASHING_ALGORITHM_IDENTIFIERS),
                        alg) THEN
        Throw("JWTParsingError",
              "found the 'alg' header field to specify an invalid hashing algorithm: ",
              ToTemplateString(alg))
      ELSE IF ~Includes(AsStringValues(SUPPORTED_HASHING_ALGORITHM_IDENTIFIERS),
                        alg) THEN
        Throw("JWTParsingError",
              "found the 'alg' header field to specify a valid but unsupported hashing algorithm: ",
              ToTemplateString(alg))
      ELSE Return(alg.s)

\* this.payload[field] = value
setPayloadField(token, field, value) ==
  [ token EXCEPT !.payload = JObj(PutMember(token.payload.m, field, JStr(value))) ]

\* [a, b, ...].join(".")
RECURSIVE JoinWithDots(_)
JoinWithDots(parts) ==
  IF Len(parts) = 0 THEN << >>
  ELSE IF Len(parts) = 1 THEN parts[1]
  ELSE parts[1] \o << "." >> \o JoinWithDots(Tail(parts))

(***************************************************************************)
(* JSONWebToken                                                            *)
(***************************************************************************)

K_typ == << "t", "y", "p" >>

getDefaultHeaders(hashingAlgorithm) ==
  LET defaultHeaders == << Member(K_typ, JStr(<< "J", "W", "T" >>)) >>
  IN  IF hashingAlgorithm # Undefined
      THEN JObj(PutMember(defaultHeaders, K_alg, hashingAlgorithm))
      ELSE JObj(defaultHeaders)

\* new JSONWebToken(payload, secret, hashingAlgorithm): headers is omitted
\* and defaults to getDefaultHeaders(hashingAlgorithm).
NewJSONWebToken(payload, secret, hashingAlgorithm) ==
  [ headers |-> getDefaultHeaders(JStr(hashingAlgorithm)),
    payload |-> payload,
    secret |-> secret ]

\* new JSONWebToken(payload, secret, hashingAlgorithm, headers)
NewJSONWebTokenWithHeaders(payload, secret, hashingAlgorithm, headers) ==
  [ headers |-> headers, payload |-> payload, secret |-> secret ]

getSecret(token) == token.secret

\* The sum of (byte + 1) * (2 * position + 1) over bytes[lo..hi].
RECURSIVE WeightedSum(_, _, _)
WeightedSum(bytes, lo, hi) ==
  IF lo > hi THEN 0
  ELSE IF lo = hi THEN (bytes[lo] + 1) * (2 * lo + 1)
  ELSE WeightedSum(bytes, lo, (lo + hi) \div 2)
       + WeightedSum(bytes, (lo + hi) \div 2 + 1, hi)

MixBytes(bytes) == WeightedSum(bytes, 1, Len(bytes))

RECURSIVE BigEndianBytes(_, _)
BigEndianBytes(n, count) ==
  IF count = 0 THEN << >>
  ELSE Append(BigEndianBytes(n \div 256, count - 1), n % 256)

\* crypto.createHmac(hash, key).update(input).digest(): a keyed hash, a
\* deterministic function of the hash name, the key and the input.  The
\* digest is scaled to DigestBytes(hash) bytes; like HMAC's, it changes
\* when one character of the key or of the input changes.
DigestBytes(hash) ==
  CASE hash = "SHA256" -> 1
    [] hash = "SHA384" -> 2
    [] hash = "SHA512" -> 3

Power256(n) == IF n = 1 THEN 256 ELSE IF n = 2 THEN 65536 ELSE 16777216

HmacDigest(hash, key, input) ==
  LET n == DigestBytes(hash)
      keyed == (MixBytes(Utf8Bytes(key)) % 65536) * 7919
  IN  BigEndianBytes((n + keyed + MixBytes(Utf8Bytes(input))) % Power256(n), n)

\* The function getHashingAlgorithm returns for an identifier, applied to
\* secret and input.
HashingFunction(identifier, secret, input) ==
  CASE identifier = << "H", "S", "2", "5", "6" >> ->
         EncodeBase64Url(HmacDigest("SHA256", secret, input))
    [] identifier = << "H", "S", "3", "8", "4" >> ->
         EncodeBase64Url(HmacDigest("SHA384", secret, input))
    [] identifier = << "H", "S", "5", "1", "2" >> ->
         EncodeBase64Url(HmacDigest("SHA512", secret, input))

IsHmacIdentifier(identifier) ==
  identifier \in { << "H", "S", "2", "5", "6" >>,
                   << "H", "S", "3", "8", "4" >>,
                   << "H", "S", "5", "1", "2" >> }

\* getHashingAlgorithm: .value is the identifier whose function is
\* returned.  The identifier comes from getHashingAlgorithmIdentifier, whose
\* error propagates; the switch throws for every identifier but the three
\* HMAC ones.
getHashingAlgorithm(token) ==
  LET Switch(identifier) ==
        IF ~Returned(identifier) THEN identifier
        ELSE IF IsHmacIdentifier(identifier.value) THEN identifier
        ELSE Throw("Error", "Unrecognized hashing algorithm: ",
                   identifier.value)
  IN  Switch(getHashingAlgorithmIdentifier(token))

\* getSignature hashing the encoded payload alone, the headers left out.
getSignature_PayloadOnly(token) ==
  LET Apply(hashingFunction) ==
        IF ~Returned(hashingFunction) THEN hashingFunction
        ELSE Return(HashingFunction(
                      hashingFunction.value, getSecret(token),
                      getEncodedPayload(token)))
  IN  Apply(getHashingAlgorithm(token))

\* JSONWebToken.getSignature
getSignature(token) ==
  LET Apply(hashingFunction) ==
        IF ~Returned(hashingFunction) THEN hashingFunction
        ELSE Return(HashingFunction(
                      hashingFunction.value, getSecret(token),
                      JoinWithDots(<< getEncodedHeaders(token),
                                      getEncodedPayload(token) >>)))
  IN  Apply(getHashingAlgorithm(token))

\* JSONWebToken.toString (AbstractJSONWebToken.toString with the signature
\* computed)
toString(token) ==
  LET Join(signature) ==
        IF ~Returned(signature) THEN signature
        ELSE Return(JoinWithDots(<< getEncodedHeaders(token),
                                    getEncodedPayload(token),
                                    signature.value >>))
  IN  Join(getSignature(token))

(***************************************************************************)
(* DecodedJSONWebToken                                                     *)
(***************************************************************************)

\* allowableIssuers and the like: false, or an array of primitives and
\* undefined.
JsFalse == [ array |-> FALSE ]

JsArray(items) == [ array |-> TRUE, items |-> items ]

OptionFields ==
  { "allowableIssuers", "allowableSubjects", "allowableAudiences",
    "timingTolerance", "validateExpirationTimeClaim",
    "validateNotBeforeClaim", "validateIssuedAtClaim" }

\* A Partial<ValidationOptions>: each field omitted or given.
Omitted == [ given |-> FALSE ]

Given(v) == [ given |-> TRUE, v |-> v ]

\* {}
EmptyOptions == [ f \in OptionFields |-> Omitted ]

getDefaultValidationOptions ==
  [ allowableIssuers |-> JsFalse,
    allowableSubjects |-> JsFalse,
    allowableAudiences |-> JsFalse,
    timingTolerance |-> 0,
    validateExpirationTimeClaim |-> TRUE,
    validateNotBeforeClaim |-> TRUE,
    validateIssuedAtClaim |-> FALSE ]

\* The spread with its operands exchanged, { ...options, ...defaults }: the
\* defaults override what the caller supplied.
SpreadOver_DefaultsLast(defaults, options) ==
  [ f \in OptionFields |-> defaults[f] ]

\* { ...defaults, ...options }
SpreadOver(defaults, options) ==
  [ f \in OptionFields |->
      IF options[f].given THEN options[f].v ELSE defaults[f] ]

K_iss == << "i", "s", "s" >>

K_sub == << "s", "u", "b" >>

K_aud == << "a", "u", "d" >>

K_exp == << "e", "x", "p" >>

K_nbf == << "n", "b", "f" >>

K_iat == << "i", "a", "t" >>

\* A check of validate that does not throw.
Pass == Return(Undefined)

\* validate, the issuer check
IssuerCheck(token, fullOptions) ==
  IF fullOptions.allowableIssuers # JsFalse THEN
    IF ~CanReadProperty(token.payload) THEN TypeErrorOnNull
    ELSE IF ~Includes(fullOptions.allowableIssuers.items,
                      GetProperty(token.payload, K_iss))
      THEN Throw("JWTValidationError", "disallowed issuer: ",
                 ToTemplateString(GetProperty(token.payload, K_iss)))
    ELSE Pass
  ELSE Pass

\* SubjectCheck as a copy of IssuerCheck that still reads the 'iss' claim.
SubjectCheck_ReadsIssuer(token, fullOptions) ==
  IF fullOptions.allowableSubjects # JsFalse THEN
    IF ~CanReadProperty(token.payload) THEN TypeErrorOnNull
    ELSE IF ~Includes(fullOptions.allowableSubjects.items,
                      GetProperty(token.payload, K_iss))
      THEN Throw("JWTValidationError", "disallowed subject: ",
                 ToTemplateString(GetProperty(token.payload, K_iss)))
    ELSE Pass
  ELSE Pass

\* validate, the subject check
SubjectCheck(token, fullOptions) ==
  IF fullOptions.allowableSubjects # JsFalse THEN
    IF ~CanReadProperty(token.payload) THEN TypeErrorOnNull
    ELSE IF ~Includes(fullOptions.allowableSubjects.items,
                      GetProperty(token.payload, K_sub))
      THEN Throw("JWTValidationError", "disallowed subject: ",
                 ToTemplateString(GetProperty(token.payload, K_sub)))
    ELSE Pass
  ELSE Pass

\* validate, the audience check
AudienceCheck(token, fullOptions) ==
  IF fullOptions.allowableAudiences # JsFalse THEN
    IF ~CanReadProperty(token.payload) THEN TypeErrorOnNull
    ELSE IF ~Includes(fullOptions.allowableAudiences.items,
                      GetProperty(token.payload, K_aud))
      THEN Throw("JWTValidationError", "disallowed audience: ",
                 ToTemplateString(GetProperty(token.payload, K_aud)))
    ELSE Pass
  ELSE Pass

\* The 'exp' check with <= for <: a token expiring exactly at the cutoff is
\* rejected.
ExpirationTimeCheck_Inclusive(token, fullOptions, currentTime) ==
  IF fullOptions.validateExpirationTimeClaim THEN
    IF ~CanReadProperty(token.payload) THEN TypeErrorOnNull
    ELSE LET exp == GetProperty(token.payload, K_exp)
         IN  IF exp = Undefined THEN
               Throw("JWTValidationError",
                     "the 'exp' claim was found to be undefined", << >>)
             ELSE IF exp.t # "number" THEN
               Throw("JWTValidationError",
                     "the 'exp' claim was found to be non-numeric", << >>)
             ELSE IF exp.n <= currentTime + fullOptions.timingTolerance THEN
               Throw("JWTValidationError",
                     "the 'exp' claim indicates that this JWT is expired", << >>)
             ELSE Pass
  ELSE Pass

\* validate, the 'exp' check
ExpirationTimeCheck(token, fullOptions, currentTime) ==
  IF fullOptions.validateExpirationTimeClaim THEN
    IF ~CanReadProperty(token.payload) THEN TypeErrorOnNull
    ELSE LET exp == GetProperty(token.payload, K_exp)
         IN  IF exp = Undefined THEN
               Throw("JWTValidationError",
                     "the 'exp' claim was found to be undefined", << >>)
             ELSE IF exp.t # "number" THEN
               Throw("JWTValidationError",
                     "the 'exp' claim was found to be non-numeric", << >>)
             ELSE IF exp.n < currentTime + fullOptions.timingTolerance THEN
               Throw("JWTValidationError",
                     "the 'exp' claim indicates that this JWT is expired", << >>)
             ELSE Pass
  ELSE Pass

\* The 'nbf' check with <= for <: a token is still rejected at its
\* not-before instant.
NotBeforeCheck_Inclusive(token, fullOptions, currentTime) ==
  IF fullOptions.validateNotBeforeClaim THEN
    IF ~CanReadProperty(token.payload) THEN TypeErrorOnNull
    ELSE LET nbf == GetProperty(token.payload, K_nbf)
         IN  IF nbf = Undefined THEN
               Throw("JWTValidationError",
                     "the 'nbf' claim was found to be undefined", << >>)
             ELSE IF nbf.t # "number" THEN
               Throw("JWTValidationError",
                     "the 'nbf' claim was found to be non-numeric", << >>)
             ELSE IF currentTime - fullOptions.timingTolerance <= nbf.n THEN
               Throw("JWTValidationError",
                     "the 'nbf' claim indicates that this JWT is not yet valid", << >>)
             ELSE Pass
  ELSE Pass

\* validate, the 'nbf' check
NotBeforeCheck(token, fullOptions, currentTime) ==
  IF fullOptions.validateNotBeforeClaim THEN
    IF ~CanReadProperty(token.payload) THEN TypeErrorOnNull
    ELSE LET nbf == GetProperty(token.payload, K_nbf)
         IN  IF nbf = Undefined THEN
               Throw("JWTValidationError",
                     "the 'nbf' claim was found to be undefined", << >>)
             ELSE IF nbf.t # "number" THEN
               Throw("JWTValidationError",
                     "the 'nbf' claim was found to be non-numeric", << >>)
             ELSE IF currentTime - fullOptions.timingTolerance < nbf.n THEN
               Throw("JWTValidationError",
                     "the 'nbf' claim indicates that this JWT is not yet valid", << >>)
             ELSE Pass
  ELSE Pass

\* validate, the 'iat' check
IssuedAtCheck(token, fullOptions, currentTime) ==
  IF fullOptions.validateIssuedAtClaim THEN
    IF ~CanReadProperty(token.payload) THEN TypeErrorOnNull
    ELSE LET iat == GetProperty(token.payload, K_iat)
         IN  IF iat = Undefined THEN
               Throw("JWTValidationError",
                     "the 'iat' claim was found to be undefined", << >>)
             ELSE IF iat.t # "number" THEN
               Throw("JWTValidationError",
                     "the 'iat' claim was found to be non-numeric", << >>)
             ELSE IF currentTime - fullOptions.timingTolerance < iat.n THEN
               Throw("JWTValidationError",
                     "the 'iat' claim indicates that this JWT has not been issued yet", << >>)
             ELSE Pass
  ELSE Pass

\* The first outcome of a sequence of check outcomes that is a throw, or
\* Pass: checks[i] is evaluated only if none before it threw.
RECURSIVE FirstThrow(_, _)
FirstThrow(checks, i) ==
  IF i > Len(checks) THEN Pass
  ELSE IF ~Returned(checks[i]) THEN checks[i]
  ELSE FirstThrow(checks, i + 1)

\* The checks of validate with the timing checks moved before the
\* allow-list checks.
ChecksInOrder_TimingFirst(token, fullOptions, currentTime) ==
  << ExpirationTimeCheck(token, fullOptions, currentTime),
     NotBeforeCheck(token, fullOptions, currentTime),
     IssuedAtCheck(token, fullOptions, currentTime),
     IssuerCheck(token, fullOptions),
     SubjectCheck(token, fullOptions),
     AudienceCheck(token, fullOptions) >>

\* The checks of validate in the order of the code.
ChecksInOrder(token, fullOptions, currentTime) ==
  << IssuerCheck(token, fullOptions),
     SubjectCheck(token, fullOptions),
     AudienceCheck(token, fullOptions),
     ExpirationTimeCheck(token, fullOptions, currentTime),
     NotBeforeCheck(token, fullOptions, currentTime),
     IssuedAtCheck(token, fullOptions, currentTime) >>

\* token.validate(secret, options) at time currentTime (Date.now() / 1000).
\* The body never reads secret.
validate(token, secret, options, currentTime) ==
  LET fullOptions == SpreadOver(getDefaultValidationOptions, options)
  IN  FirstThrow(ChecksInOrder(token, fullOptions, currentTime), 1)

\* DecodedJSONWebToken.getSignature
getDecodedSignature(token) == token.signature

\* DecodedJSONWebToken's toString
decodedToString(token) ==
  JoinWithDots(<< getEncodedHeaders(token), getEncodedPayload(token),
                  getDecodedSignature(token) >>)

\* string.trim()
RECURSIVE TrimEnd(_)
TrimEnd(s) ==
  IF Len(s) > 0 /\ IsWhitespace(s[Len(s)])
  THEN TrimEnd(SubSeq(s, 1, Len(s) - 1)) ELSE s

Trim(s) == TrimEnd(SubSeq(s, SkipWhitespace(s, 1), Len(s)))

\* string.indexOf(c, from), in positions counted from 1; 0 is "not found"
\* (the code's -1).
IndexOf(s, c, from) ==
  LET found == { i \in from..Len(s) : s[i] = c }
  IN  IF found = {} THEN 0
      ELSE CHOOSE i \in found : \A j \in found : i <= j

\* A parameter with a default value: the default stands in for undefined.
DefaultTo(argument, default) ==
  IF argument = Undefined THEN default ELSE argument

\* Buffer.from(segment, "base64url").toString(), then JSON.parse
DecodeSegment(segment) == JsonParse(Utf8String(DecodeBase64Url(segment)))

\* SplitToken with the test of the payload segment moved before that of the
\* headers segment.
SplitToken_PayloadFirst(token) ==
  LET trimmed == Trim(token)
      firstSeparatorIndex == IndexOf(trimmed, ".", 1)
      secondSeparatorIndex == IndexOf(trimmed, ".", firstSeparatorIndex + 1)
      encodedHeaders == SubSeq(trimmed, 1, firstSeparatorIndex - 1)
      encodedPayload ==
        SubSeq(trimmed, firstSeparatorIndex + 1, secondSeparatorIndex - 1)
      signature == SubSeq(trimmed, secondSeparatorIndex + 1, Len(trimmed))
  IN  IF firstSeparatorIndex = 0 THEN
        Throw("JWTParsingError", "failed to find first dot separator", << >>)
      ELSE IF secondSeparatorIndex = 0 THEN
        Throw("JWTParsingError", "failed to find second dot separator", << >>)
      ELSE IF Len(encodedPayload) = 0 THEN
        Throw("JWTParsingError",
              "the payload portion of the JWT was found to be zero-length/empty",
              << >>)
      ELSE IF Len(encodedHeaders) = 0 THEN
        Throw("JWTParsingError",
              "the headers portion of the JWT was found to be zero-length/empty",
              << >>)
      ELSE IF Len(signature) = 0 THEN
        Throw("JWTParsingError",
              "the signature portion of the JWT was found to be zero-length/empty",
              << >>)
      ELSE Return([ encodedHeaders |-> encodedHeaders,
                    encodedPayload |-> encodedPayload,
                    signature |-> signature ])

\* from, the first part: the trimmed token cut at its first two dots into
\* three segments, none of them empty.
SplitToken(token) ==
  LET trimmed == Trim(token)
      firstSeparatorIndex == IndexOf(trimmed, ".", 1)
      secondSeparatorIndex == IndexOf(trimmed, ".", firstSeparatorIndex + 1)
      encodedHeaders == SubSeq(trimmed, 1, firstSeparatorIndex - 1)
      encodedPayload ==
        SubSeq(trimmed, firstSeparatorIndex + 1, secondSeparatorIndex - 1)
      signature == SubSeq(trimmed, secondSeparatorIndex + 1, Len(trimmed))
  IN  IF firstSeparatorIndex = 0 THEN
        Throw("JWTParsingError", "failed to find first dot separator", << >>)
      ELSE IF secondSeparatorIndex = 0 THEN
        Throw("JWTParsingError", "failed to find second dot separator", << >>)
      ELSE IF Len(encodedHeaders) = 0 THEN
        Throw("JWTParsingError",
              "the headers portion of the JWT was found to be zero-length/empty",
              << >>)
      ELSE IF Len(encodedPayload) = 0 THEN
        Throw("JWTParsingError",
              "the payload portion of the JWT was found to be zero-length/empty",
              << >>)
      ELSE IF Len(signature) = 0 THEN
        Throw("JWTParsingError",
              "the signature portion of the JWT was found to be zero-length/empty",
              << >>)
      ELSE Return([ encodedHeaders |-> encodedHeaders,
                    encodedPayload |-> encodedPayload,
                    signature |-> signature ])

\* from, the second part: headers and payload decoded and parsed, and the
\* DecodedJSONWebToken constructed from whatever JSON.parse returned.
ParseSegments(segments) ==
  LET Construct(headers, payload) ==
        IF ~headers.ok THEN
          Throw("JWTParsingError",
                "failed to decode and/or parse the headers portion of the JWT",
                << >>)
        ELSE IF ~payload.ok THEN
          Throw("JWTParsingError",
                "failed to decode and/or parse the payload portion of the JWT",
                << >>)
        ELSE Return([ headers |-> headers.v, payload |-> payload.v,
                      signature |-> segments.signature ])
  IN  Construct(DecodeSegment(segments.encodedHeaders),
                DecodeSegment(segments.encodedPayload))

\* from, the last part: if (validateBeforeReturn) result.validate(options).
\* options is the first argument of validate, its secret; the second, its
\* options, is omitted and defaults to {}.
ValidateBeforeReturn(result, validateBeforeReturn, secret, options, currentTime) ==
  LET Outcome(validated) ==
        IF validateBeforeReturn /\ ~Returned(validated) THEN validated
        ELSE Return(result)
  IN  Outcome(validate(result, options, DefaultTo(Undefined, EmptyOptions),
                       currentTime))

\* DecodedJSONWebToken.from(token, validateBeforeReturn, secret, options)
from(token, validateBeforeReturn, secret, options, currentTime) ==
  LET AfterParse(result) ==
        IF ~Returned(result) THEN result
        ELSE ValidateBeforeReturn(result.value, validateBeforeReturn, secret,
                                  options, currentTime)
      AfterSplit(segments) ==
        IF ~Returned(segments) THEN segments
        ELSE AfterParse(ParseSegments(segments.value))
  IN  AfterSplit(SplitToken(token))

\* DecodedJSONWebToken.decode(token, validateBeforeReturn, options): it
\* calls from(token, validateBeforeReturn, options), where options is from's
\* third parameter, secret, and from's fourth, options, defaults to {}.
DecodedJSONWebToken_decode(token, validateBeforeReturn, options, currentTime) ==
  from(token, validateBeforeReturn, DefaultTo(options, EmptyOptions),
       DefaultTo(Undefined, EmptyOptions), currentTime)

\* JSONWebToken.decode(token, validateBeforeReturn, secret, options): it
\* calls DecodedJSONWebToken.decode with four arguments, which takes three:
\* secret arrives as its options and options is dropped.
JSONWebToken_decode(token, validateBeforeReturn, secret, options, currentTime) ==
  DecodedJSONWebToken_decode(token, validateBeforeReturn, secret, currentTime)

(***************************************************************************)
(* The inputs of the model                                                 *)
(***************************************************************************)

\* The longest token string enumerated character by character.
MaxRawLen == 4

\* The clock (Date.now() / 1000, in seconds) takes the values 0..MaxNow.
MaxNow == 2

\* The characters of the enumerated token strings: a base64url character,
\* the separator and whitespace.
RawAlphabet == { "a", ".", " " }

ShortStrings == UNION { [ 1..n -> RawAlphabet ] : n \in 0..MaxRawLen }

EncodeText(text) == EncodeBase64Url(Utf8Bytes(text))

\* The JSON texts of the header segment of the crafted token strings.
HeaderTexts ==
  {
    \* {"alg":"HS256"}
    << "{", "\"", "a", "l", "g", "\"", ":", "\"", "H", "S", "2", "5", "6", "\"", "}" >>,
    \* {"alg":"HS512"}
    << "{", "\"", "a", "l", "g", "\"", ":", "\"", "H", "S", "5", "1", "2", "\"", "}" >>,
    \* {"alg":"RS256"}
    << "{", "\"", "a", "l", "g", "\"", ":", "\"", "R", "S", "2", "5", "6", "\"", "}" >>,
    \* {"alg":"XX999"}
    << "{", "\"", "a", "l", "g", "\"", ":", "\"", "X", "X", "9", "9", "9", "\"", "}" >>,
    \* {}
    << "{", "}" >>,
    \* null
    << "n", "u", "l", "l" >>,
    \* x
    << "x" >>
  }

\* The JSON texts of the payload segment of the crafted token strings.
PayloadTexts ==
  {
    \* {}
    << "{", "}" >>,
    \* {"exp":2,"nbf":1}
    << "{", "\"", "e", "x", "p", "\"", ":", "2", ",", "\"", "n", "b", "f", "\"", ":", "1", "}" >>,
    \* {"iss":"evil","exp":2,"nbf":1}
    << "{", "\"", "i", "s", "s", "\"", ":", "\"", "e", "v", "i", "l", "\"", ",", "\"", "e", "x", "p", "\"", ":", "2", ",", "\"", "n", "b", "f", "\"", ":", "1", "}" >>,
    \* {"exp":"x","nbf":1}
    << "{", "\"", "e", "x", "p", "\"", ":", "\"", "x", "\"", ",", "\"", "n", "b", "f", "\"", ":", "1", "}" >>,
    \* { "a":1,"a":2}
    << "{", " ", "\"", "a", "\"", ":", "1", ",", "\"", "a", "\"", ":", "2", "}" >>,
    \* null
    << "n", "u", "l", "l" >>,
    \* 7
    << "7" >>,
    \* "s"
    << "\"", "s", "\"" >>,
    \* true
    << "t", "r", "u", "e" >>,
    \* []
    << "[", "]" >>,
    \* {
    << "{" >>
  }

\* The secrets of the model: that of the issuer and another one.
Secret == << "k" >>

WrongSecret == << "w" >>

Secrets == { Secret, WrongSecret }

\* The signature the issuer (holding Secret) puts on two encoded segments
\* under the header's algorithm, AA if the header names no HMAC algorithm.
IssuerSignature(headerText, payloadText) ==
  LET Sign(alg) ==
        IF alg.t = "string" /\ IsHmacIdentifier(alg.s)
        THEN HashingFunction(alg.s, Secret,
               JoinWithDots(<< EncodeText(headerText),
                               EncodeText(payloadText) >>))
        ELSE << "A", "A" >>
      AlgOf(parsed) ==
        IF parsed.ok THEN GetProperty(parsed.v, K_alg) ELSE Undefined
  IN  Sign(AlgOf(JsonParse(headerText)))

\* s with the character at position i replaced by another base64url
\* character.
Tamper(s, i) == [ s EXCEPT ![i] = IF s[i] = "A" THEN "B" ELSE "A" ]

\* The signature segments tried on a crafted token: the issuer's, one with
\* a dot in it and, where the issuer signed, the issuer's with one
\* character changed.
WireSignatures(headerText, payloadText) ==
  LET Tried(good) ==
        { good, good \o << ".", "x" >> }
        \cup IF good = << "A", "A" >> THEN {}
             ELSE { Tamper(good, i) : i \in 1..Len(good) }
  IN  Tried(IssuerSignature(headerText, payloadText))

CraftedWires ==
  UNION { { JoinWithDots(<< EncodeText(h), EncodeText(p), sig >>) :
              sig \in WireSignatures(h, p) } :
          <<h, p>> \in HeaderTexts \X PayloadTexts }

\* The crafted tokens with an empty object as header, with whitespace
\* around them.
PaddedWires ==
  { << " " >> \o
    JoinWithDots(<< EncodeText(<< "{", "}" >>), EncodeText(p),
                    IssuerSignature(<< "{", "}" >>, p) >>)
    \o << " " >> :
      p \in PayloadTexts }

Wires == ShortStrings \cup CraftedWires \cup PaddedWires

\* The secret argument of a call: a string, or omitted.
SecretArguments == { JStr(k) : k \in Secrets } \cup { Undefined }

Good == << "g", "o", "o", "d" >>

Evil == << "e", "v", "i", "l" >>

\* The policies passed down the decode pipeline.
PipelineOptions ==
  { EmptyOptions,
    [ EmptyOptions EXCEPT !.validateExpirationTimeClaim = Given(FALSE),
                          !.validateNotBeforeClaim = Given(FALSE) ],
    [ EmptyOptions EXCEPT !.allowableIssuers = Given(JsArray(<< JStr(Good) >>)),
                          !.validateExpirationTimeClaim = Given(FALSE),
                          !.validateNotBeforeClaim = Given(FALSE) ],
    [ EmptyOptions EXCEPT !.timingTolerance = Given(1) ] }

\* The arguments <<validateBeforeReturn, secret, options>> of a decode
\* call: decode(token, false), or decode(token, true, secret, options).
DecodeArguments ==
  { << FALSE, Undefined, EmptyOptions >> }
  \cup ({ TRUE } \X SecretArguments \X PipelineOptions)

\* The payloads tokens are constructed with.
ConstructPayloads ==
  { JObj(<< >>),
    JObj(<< Member(K_exp, JNum(2)), Member(K_nbf, JNum(1)) >>),
    JObj(<< Member(K_iss, JStr(Good)), Member(K_exp, JNum(1)),
            Member(K_nbf, JNum(0)) >>),
    JObj(<< Member(<< "a" >>, JArr(<< JNull, JBool(TRUE) >>)) >>) }

\* The algorithms tokens are constructed with: the supported ones and an
\* unsupported one.
ConstructAlgorithms ==
  { SUPPORTED_HASHING_ALGORITHM_IDENTIFIERS[i] :
      i \in 1..Len(SUPPORTED_HASHING_ALGORITHM_IDENTIFIERS) }
  \cup { << "R", "S", "2", "5", "6" >> }

(***************************************************************************)
(* The state machine: one caller, one clock reading per run                *)
(***************************************************************************)

VARIABLES
  now,      \* Date.now() / 1000 during the calls of this run
  wire,     \* the token string at hand (<< >>: none yet)
  jwt,      \* the JSONWebToken constructed, or NoToken
  decoded,  \* the DecodedJSONWebToken a decode returned, or NoToken
  call,     \* the last call: its operation and arguments
  result    \* the outcome of the last call

vars == << now, wire, jwt, decoded, call, result >>

NoToken == [ none |-> TRUE ]

Call(op, validateBeforeReturn, secret, options) ==
  [ op |-> op, validateBeforeReturn |-> validateBeforeReturn,
    secret |-> secret, options |-> options ]

NoCall == Call("none", FALSE, Undefined, EmptyOptions)

NoResult == [ kind |-> "none" ]

Init ==
  /\ now \in 0..MaxNow
  /\ wire = << >>
  /\ jwt = NoToken
  /\ decoded = NoToken
  /\ call = NoCall
  /\ result = NoResult

\* A token string arrives from outside.
Receive ==
  /\ wire = << >> /\ jwt = NoToken
  /\ \E raw \in Wires \ { << >> } : wire' = raw
  /\ UNCHANGED << now, jwt, decoded, call, result >>

\* new JSONWebToken(payload, secret, hashingAlgorithm)
Construct ==
  /\ wire = << >> /\ jwt = NoToken
  /\ \E payload \in ConstructPayloads, secret \in Secrets,
        alg \in ConstructAlgorithms :
       jwt' = NewJSONWebToken(payload, secret, alg)
  /\ call' = Call("new JSONWebToken", FALSE, Undefined, EmptyOptions)
  /\ result' = NoResult
  /\ UNCHANGED << now, wire, decoded >>

\* jwt.toString(); the string is then the token string at hand.
Serialize ==
  /\ wire = << >> /\ jwt # NoToken
  /\ call' = Call("toString", FALSE, Undefined, EmptyOptions)
  /\ result' = toString(jwt)
  /\ wire' = IF Returned(result') THEN result'.value ELSE wire
  /\ UNCHANGED << now, jwt, decoded >>

\* The effect of a decode call with outcome r.
Decoded(op, validateBeforeReturn, secret, options, r) ==
  /\ call' = Call(op, validateBeforeReturn, secret, options)
  /\ result' = r
  /\ decoded' = IF Returned(r) THEN r.value ELSE decoded
  /\ UNCHANGED << now, wire, jwt >>

\* The token string at hand is decoded once.
CanDecode == wire # << >> /\ call.op \in { "none", "toString" }

\* JSONWebToken.decode(wire, validateBeforeReturn, secret, options)
DecodeViaJSONWebToken ==
  /\ CanDecode
  /\ \E <<validateBeforeReturn, secret, options>> \in DecodeArguments :
       Decoded("JSONWebToken.decode", validateBeforeReturn, secret, options,
               JSONWebToken_decode(wire, validateBeforeReturn, secret,
                                   options, now))

\* DecodedJSONWebToken.decode(wire, validateBeforeReturn, options)
DecodeViaDecodedJSONWebToken ==
  /\ CanDecode
  /\ \E <<validateBeforeReturn, secret, options>> \in DecodeArguments :
       /\ secret = Undefined
       /\ Decoded("DecodedJSONWebToken.decode", validateBeforeReturn,
                  Undefined, options,
                  DecodedJSONWebToken_decode(wire, validateBeforeReturn,
                                             options, now))

\* DecodedJSONWebToken.from(wire, validateBeforeReturn, secret, options)
DecodeViaFrom ==
  /\ CanDecode
  /\ \E <<validateBeforeReturn, secret, options>> \in DecodeArguments :
       Decoded("DecodedJSONWebToken.from", validateBeforeReturn, secret,
               options,
               from(wire, validateBeforeReturn, secret, options, now))

\* A token decoded without validation is at hand.
CanUseDecoded == decoded # NoToken /\ ~call.validateBeforeReturn

\* decoded.validate(secret, options)
Validate ==
  /\ CanUseDecoded
  /\ \E secret \in { JStr(k) : k \in Secrets }, options \in PipelineOptions :
       /\ call' = Call("validate", FALSE, secret, options)
       /\ result' = validate(decoded, secret, options, now)
  /\ UNCHANGED << now, wire, jwt, decoded >>

\* decoded.getHashingAlgorithmIdentifier()
GetHashingAlgorithmIdentifier ==
  /\ CanUseDecoded
  /\ call' = Call("getHashingAlgorithmIdentifier", FALSE, Undefined,
                  EmptyOptions)
  /\ result' = getHashingAlgorithmIdentifier(decoded)
  /\ UNCHANGED << now, wire, jwt, decoded >>

\* jwt.setPayloadField(field, value), before jwt is serialised.
SetPayloadField ==
  /\ wire = << >> /\ jwt # NoToken
  /\ \E field \in { K_iss }, value \in { Good, Evil } :
       jwt' = setPayloadField(jwt, field, value)
  /\ call' = Call("setPayloadField", FALSE, Undefined, EmptyOptions)
  /\ result' = Return(Undefined)
  /\ UNCHANGED << now, wire, decoded >>

\* jwt.getPayload().exp = MaxNow: the caller writes a number into the
\* mapping getPayload returns, which is the token's own.
MutateLivePayload ==
  /\ wire = << >> /\ jwt # NoToken
  /\ jwt' = [ jwt EXCEPT !.payload =
                 JObj(PutMember(getPayload(jwt).m, K_exp, JNum(MaxNow))) ]
  /\ call' = Call("getPayload", FALSE, Undefined, EmptyOptions)
  /\ result' = Return(getPayload(jwt'))
  /\ UNCHANGED << now, wire, decoded >>

\* decoded.setPayloadField("iss", "good"), right after the decode.  The
\* assignment this.payload[field] = value, in the strict code of a class
\* body, throws a TypeError when the payload is null or a primitive.  (A
\* payload that is an array takes the property without serialising it; the
\* action leaves that case out.)
SetDecodedPayloadField ==
  /\ CanUseDecoded /\ call.op \in { "JSONWebToken.decode",
                                    "DecodedJSONWebToken.decode",
                                    "DecodedJSONWebToken.from" }
  /\ decoded.payload.t # "array"
  /\ call' = Call("setPayloadField", FALSE, Undefined, EmptyOptions)
  /\ IF decoded.payload.t = "object"
     THEN /\ decoded' = setPayloadField(decoded, K_iss, Good)
          /\ result' = Return(Undefined)
     ELSE /\ decoded' = decoded
          /\ result' = Throw("TypeError", "Cannot set property", K_iss)
  /\ UNCHANGED << now, wire, jwt >>

Next ==
  \/ Receive
  \/ Construct
  \/ Serialize
  \/ DecodeViaJSONWebToken
  \/ DecodeViaDecodedJSONWebToken
  \/ DecodeViaFrom
  \/ Validate
  \/ GetHashingAlgorithmIdentifier

Spec == Init /\ [][Next]_vars

\* The life of a constructed token: constructed, mutated, serialised, the
\* string decoded and the decoded token mutated in turn.
NextMutate ==
  \/ Construct
  \/ SetPayloadField
  \/ MutateLivePayload
  \/ Serialize
  \/ DecodeViaFrom
  \/ SetDecodedPayloadField

SpecMutate == Init /\ [][NextMutate]_vars

(***************************************************************************)
(* Properties of the decode pipeline (specification Spec)                  *)
(***************************************************************************)

DecodeOps ==
  { "JSONWebToken.decode", "DecodedJSONWebToken.decode",
    "DecodedJSONWebToken.from" }

\* The last call was a decode with validation on.
ValidatingDecode == call.op \in DecodeOps /\ call.validateBeforeReturn

\* The stored signature segment of token is the one its header's algorithm
\* gives, under secret, for encoded headers + "." + encoded payload.
SignatureMatches(token, secret) ==
  LET identifier == getHashingAlgorithmIdentifier(token)
  IN  /\ Returned(identifier)
      /\ token.signature =
           HashingFunction(identifier.value, secret,
             JoinWithDots(<< getEncodedHeaders(token),
                             getEncodedPayload(token) >>))

\* C1: validate(secret) succeeds only if the token's stored signature
\* segment equals the signature recomputed from encoded headers + "." +
\* encoded payload with the given secret and the algorithm named in the
\* header; with a tampered signature or a wrong secret it fails.
C1_ValidateChecksSignature ==
  (call.op = "validate" /\ Returned(result))
    => SignatureMatches(decoded, call.secret.s)

\* The same entry point with validation off, then validate(secret, options)
\* on the token it returned.
DecodeThenValidate(op, token, secret, options, currentTime) ==
  LET d == CASE op = "JSONWebToken.decode" ->
                  JSONWebToken_decode(token, FALSE, Undefined, EmptyOptions,
                                      currentTime)
             [] op = "DecodedJSONWebToken.decode" ->
                  DecodedJSONWebToken_decode(token, FALSE, EmptyOptions,
                                             currentTime)
             [] OTHER ->
                  from(token, FALSE, Undefined, EmptyOptions, currentTime)
      v == validate(d.value, secret, options, currentTime)
  IN  IF ~Returned(d) THEN d
      ELSE IF ~Returned(v) THEN v
      ELSE d

\* C2: a decode with validation on, a secret and a (possibly partial) policy
\* has the outcome of a decode with validation off followed by
\* validate(secret, policy): the caller's secret and policy reach the
\* validator unchanged, through JSONWebToken.decode and through
\* DecodedJSONWebToken.decode/from.
C2_DecodeForwardsSecretAndPolicy ==
  ValidatingDecode
    => result = DecodeThenValidate(call.op, wire, call.secret, call.options,
                                   now)


\* Deep equality of two JSON values: objects by their keys and the values
\* under them, arrays element by element.
RECURSIVE DeepEqual(_, _)
DeepEqual(a, b) ==
  IF a.t # b.t THEN FALSE
  ELSE IF a.t = "object" THEN
    /\ { a.m[i].k : i \in 1..Len(a.m) } = { b.m[i].k : i \in 1..Len(b.m) }
    /\ \A i \in 1..Len(a.m) :
         DeepEqual(a.m[i].v, GetProperty(b, a.m[i].k))
  ELSE IF a.t = "array" THEN
    /\ Len(a.a) = Len(b.a)
    /\ \A i \in 1..Len(a.a) : DeepEqual(a.a[i], b.a[i])
  ELSE a = b

\* The last call was JSONWebToken.decode(jwt.toString(), true, secret) with
\* the secret jwt was constructed with.
RoundTripped ==
  /\ jwt # NoToken
  /\ call.op = "JSONWebToken.decode"
  /\ call.validateBeforeReturn
  /\ call.secret = JStr(jwt.secret)
  /\ call.options = EmptyOptions

\* The decode returned a token whose headers and payload deep-equal jwt's.
RoundTripSucceeded ==
  /\ Returned(result)
  /\ DeepEqual(result.value.headers, jwt.headers)
  /\ DeepEqual(result.value.payload, jwt.payload)

\* The payload carries a numeric 'exp' not before currentTime and a numeric
\* 'nbf' not after it.
LiveAt(payload, currentTime) ==
  /\ GetProperty(payload, K_exp).t = "number"
  /\ GetProperty(payload, K_exp).n >= currentTime
  /\ GetProperty(payload, K_nbf).t = "number"
  /\ GetProperty(payload, K_nbf).n <= currentTime

\* C3, as stated: for every payload mapping and supported algorithm,
\* constructing a token, serialising it and decoding the string with
\* validation on and the same secret succeeds and returns headers and
\* payload deep-equal to the original's.
C3_RoundTripAlwaysSucceeds == RoundTripped => RoundTripSucceeded

\* C3, amended: the round trip succeeds, with deep-equal headers and
\* payload, when the payload carries a numeric 'exp' not before the current
\* time and a numeric 'nbf' not after it; for any other payload the decode
\* fails with a ValidationError.
C3_RoundTripOfLivePayload ==
  RoundTripped
    => IF LiveAt(jwt.payload, now) THEN RoundTripSucceeded
       ELSE result.kind = "JWTValidationError"

C3_Witness ==
  /\ RoundTripped
  /\ LiveAt(jwt.payload, now)
  /\ RoundTripSucceeded
  /\ GetProperty(jwt.headers, K_alg) = JStr(<< "H", "S", "5", "1", "2" >>)

HmacShaIdentifiers ==
  { << "H", "S", "2", "5", "6" >>, << "H", "S", "3", "8", "4" >>,
    << "H", "S", "5", "1", "2" >> }

RecognisedIdentifiers ==
  { VALID_HASHING_ALGORITHM_IDENTIFIERS[i] :
      i \in 1..Len(VALID_HASHING_ALGORITHM_IDENTIFIERS) }

\* The last call was getHashingAlgorithmIdentifier on a token whose headers
\* can be read.
AskedIdentifier ==
  call.op = "getHashingAlgorithmIdentifier" /\ CanReadProperty(decoded.headers)

\* C5: getHashingAlgorithmIdentifier fails with a ParsingError in exactly
\* three cases, each with its own message: 'alg' absent, 'alg' not one of
\* the 14 recognised identifiers, 'alg' recognised but not HS256, HS384 or
\* HS512.  It returns 'alg' exactly when 'alg' is one of these three, and
\* it never raises a ValidationError.
C5_IdentifierTrichotomy ==
  AskedIdentifier
    => LET alg == GetProperty(decoded.headers, K_alg)
       IN  /\ Cardinality(RecognisedIdentifiers) = 14
           /\ result.kind \in { "return", "JWTParsingError" }
           /\ Returned(result)
                <=> (alg.t = "string" /\ alg.s \in HmacShaIdentifiers)
           /\ Returned(result) => result.value = alg.s
           /\ alg = Undefined
                <=> (result.kind = "JWTParsingError" /\
                     result.msg = "found the 'alg' header field to be undefined")
           /\ (alg # Undefined /\
               ~(alg.t = "string" /\ alg.s \in RecognisedIdentifiers))
                <=> (result.kind = "JWTParsingError" /\
                     result.msg = "found the 'alg' header field to specify an invalid hashing algorithm: ")
           /\ (alg.t = "string" /\
               alg.s \in RecognisedIdentifiers \ HmacShaIdentifiers)
                <=> (result.kind = "JWTParsingError" /\
                     result.msg = "found the 'alg' header field to specify a valid but unsupported hashing algorithm: ")

C5_Witness ==
  /\ AskedIdentifier
  /\ GetProperty(decoded.headers, K_alg) = JStr(<< "X", "X", "9", "9", "9" >>)
  /\ result.kind = "JWTParsingError"

\* The positions of the dots of s.
Dots(s) == { i \in 1..Len(s) : s[i] = "." }

Least(S) == CHOOSE i \in S : \A j \in S : i <= j

\* The first structural defect of a token string, by its dots alone: "none"
\* if it has two dots and three non-empty segments around the first two.
StructuralDefect(token) ==
  LET t == Trim(token)
      first == Least(Dots(t))
      second == Least(Dots(t) \ { first })
  IN  IF Dots(t) = {} THEN "failed to find first dot separator"
      ELSE IF Cardinality(Dots(t)) = 1
        THEN "failed to find second dot separator"
      ELSE IF first = 1
        THEN "the headers portion of the JWT was found to be zero-length/empty"
      ELSE IF second = first + 1
        THEN "the payload portion of the JWT was found to be zero-length/empty"
      ELSE IF second = Len(t)
        THEN "the signature portion of the JWT was found to be zero-length/empty"
      ELSE "none"

StructuralMessages ==
  { "failed to find first dot separator",
    "failed to find second dot separator",
    "the headers portion of the JWT was found to be zero-length/empty",
    "the payload portion of the JWT was found to be zero-length/empty",
    "the signature portion of the JWT was found to be zero-length/empty" }

\* C6: decode reports the first structural error in a fixed order: missing
\* first dot, missing second dot, empty headers segment, empty payload
\* segment, empty signature segment; all of them before any base64 or JSON
\* decoding, so whatever the segments hold, and no such error is reported
\* for a token string without a structural defect.
C6_FirstStructuralError ==
  call.op \in DecodeOps
    => IF StructuralDefect(wire) # "none"
       THEN result = Throw("JWTParsingError", StructuralDefect(wire), << >>)
       ELSE ~(result.kind = "JWTParsingError" /\ result.msg \in StructuralMessages)

C6_Witness ==
  /\ call.op \in DecodeOps
  /\ wire = << " ", ".", ".", " " >>
  /\ result.kind = "JWTParsingError"
  /\ result.msg =
       "the headers portion of the JWT was found to be zero-length/empty"

\* C7: every token that decode returns has headers that are a mapping and
\* a payload that is a mapping; a segment holding valid JSON that is not an
\* object (null, a number, a string, a boolean, an array) is rejected.
C7_DecodedSegmentsAreMappings ==
  (call.op \in DecodeOps /\ Returned(result))
    => /\ result.value.headers.t = "object"
       /\ result.value.payload.t = "object"

\* The headers and the payload of the token the last call worked on (the
\* one validate was called on, or the one the token string decodes to).
SegmentsOfCall ==
  IF call.op = "validate" THEN decoded
  ELSE ParseSegments(SplitToken(wire).value).value

\* C8: every failing call of decode or validate fails with one of the two
\* declared error kinds, ParsingError for structural problems and
\* ValidationError for policy failures: no other kind of error escapes, and
\* a ValidationError is raised only for a token whose headers and payload
\* are JSON objects.
C8_OnlyDeclaredErrors ==
  (call.op \in DecodeOps \cup { "validate" } /\ ~Returned(result))
    => /\ result.kind \in { "JWTParsingError", "JWTValidationError" }
       /\ result.kind = "JWTValidationError"
            => /\ SegmentsOfCall.headers.t = "object"
               /\ SegmentsOfCall.payload.t = "object"

(***************************************************************************)
(* The validator under every policy (specification SpecValidate): a        *)
(* decoded token is at hand and validate is called on it once.             *)
(***************************************************************************)

\* timingTolerance takes the values 0..MaxTol.
MaxTol == 1

\* The values of the 'iss', 'sub' and 'aud' claims: absent, or a string.
NamedClaimValues == { Undefined, JStr(Evil) }

\* The values of the 'exp', 'nbf' and 'iat' claims: absent, a string, or a
\* number of seconds.
TimingClaimValues == { Undefined, JStr(<< "x" >>), JNum(1) }

\* The object with the given members, those with an absent value left out.
ObjectOf(members) ==
  JObj(SelectSeq(members, LAMBDA member : member.v # Undefined))

ValidatePayloads ==
  { ObjectOf(<< Member(K_iss, iss), Member(K_sub, sub), Member(K_aud, aud),
                Member(K_exp, exp), Member(K_nbf, nbf), Member(K_iat, iat) >>) :
      iss \in NamedClaimValues, sub \in NamedClaimValues,
      aud \in NamedClaimValues, exp \in TimingClaimValues,
      nbf \in TimingClaimValues, iat \in TimingClaimValues }
  \cup { JNull, JNum(7) }

\* The decoded tokens validate is called on.
ValidateTokens ==
  { [ headers |-> JObj(<< Member(K_alg, JStr(<< "H", "S", "2", "5", "6" >>)) >>),
      payload |-> payload,
      signature |-> << "A", "A" >> ] : payload \in ValidatePayloads }

\* The allow-lists of a policy: the check disabled, or a set of values, the
\* "absent" sentinel possibly among them.
AllowLists ==
  { JsFalse, JsArray(<< Undefined >>), JsArray(<< JStr(Evil) >>) }

ValidatePolicies ==
  { [ allowableIssuers |-> Given(issuers),
      allowableSubjects |-> Given(subjects),
      allowableAudiences |-> Given(audiences),
      timingTolerance |-> Given(tolerance),
      validateExpirationTimeClaim |-> Given(checkExp),
      validateNotBeforeClaim |-> Given(checkNbf),
      validateIssuedAtClaim |-> Given(checkIat) ] :
      issuers \in AllowLists, subjects \in AllowLists,
      audiences \in AllowLists, tolerance \in 0..MaxTol,
      checkExp \in BOOLEAN, checkNbf \in BOOLEAN, checkIat \in BOOLEAN }

\* The values a partial policy gives to the fields it supplies: for each
\* field one that differs from its default.
SuppliedValues ==
  [ allowableIssuers |-> JsArray(<< JStr(Evil) >>),
    allowableSubjects |-> JsArray(<< JStr(Evil) >>),
    allowableAudiences |-> JsArray(<< JStr(Evil) >>),
    timingTolerance |-> MaxTol,
    validateExpirationTimeClaim |-> FALSE,
    validateNotBeforeClaim |-> FALSE,
    validateIssuedAtClaim |-> TRUE ]

\* The partial policies: every choice of the fields supplied, {} among them.
PartialPolicies ==
  { [ f \in OptionFields |->
        IF f \in supplied THEN Given(SuppliedValues[f]) ELSE Omitted ] :
      supplied \in SUBSET OptionFields }

InitValidate ==
  /\ now \in 0..MaxNow
  /\ wire = << >>
  /\ jwt = NoToken
  /\ decoded \in ValidateTokens
  /\ call = NoCall
  /\ result = NoResult

\* decoded.validate(secret, options)
ValidateUnderPolicy ==
  /\ call = NoCall
  /\ \E options \in ValidatePolicies \cup PartialPolicies :
       /\ call' = Call("validate", FALSE, JStr(Secret), options)
       /\ result' = validate(decoded, JStr(Secret), options, now)
  /\ UNCHANGED << now, wire, jwt, decoded >>

NextValidate == ValidateUnderPolicy

SpecValidate == InitValidate /\ [][NextValidate]_vars

\* The policy of the last call, completed with the defaults.
FullOptionsOfCall == SpreadOver(getDefaultValidationOptions, call.options)

\* The outcomes of the six checks on a token, each taken alone, in the
\* order issuer, subject, audience, exp, nbf, iat.
SixChecks(token, fullOptions, currentTime) ==
  << IssuerCheck(token, fullOptions),
     SubjectCheck(token, fullOptions),
     AudienceCheck(token, fullOptions),
     ExpirationTimeCheck(token, fullOptions, currentTime),
     NotBeforeCheck(token, fullOptions, currentTime),
     IssuedAtCheck(token, fullOptions, currentTime) >>

\* The checks that fail among the outcomes checks.
Failing(checks) == { i \in 1..Len(checks) : ~Returned(checks[i]) }

\* C4: validate applies its checks in the fixed order issuer, subject,
\* audience, exp, nbf, iat and stops at the first failure: when several
\* checks would fail, the error raised is that of the earliest one in this
\* order, and when none fails validate returns.
C4_EarliestFailingCheck ==
  call.op = "validate"
    => LET checks == SixChecks(decoded, FullOptionsOfCall, now)
           failing == Failing(checks)
       IN  IF failing = {} THEN Returned(result)
           ELSE result = checks[Least(failing)]

C4_Witness ==
  /\ call.op = "validate"
  /\ { 1, 2, 4, 5 }
       \subseteq Failing(SixChecks(decoded, FullOptionsOfCall, now))
  /\ result.kind = "JWTValidationError"
  /\ result.msg = "disallowed issuer: "

\* The claim value is allowed by an allow-list: the list is the "disabled"
\* value, or the value (the "absent" sentinel for an absent claim) is one
\* of its members.
AllowedBy(list, value) ==
  list = JsFalse \/ \E i \in 1..Len(list.items) : list.items[i] = value

\* The text an error gives for a claim value: the string, "undefined" for
\* an absent claim.
NameOf(value) ==
  IF value = Undefined
  THEN << "u", "n", "d", "e", "f", "i", "n", "e", "d" >>
  ELSE value.s

\* The result is the error naming the claim and its offending value.
Disallowed(claimName, value) ==
  result = Throw("JWTValidationError", claimName, NameOf(value))

C10_ToleranceOnlyWidens ==
  (call.op = "validate" /\ Returned(result))
    => \A tolerance \in FullOptionsOfCall.timingTolerance..MaxTol :
         Returned(validate(decoded, call.secret,
                           [ call.options EXCEPT
                               !.timingTolerance = Given(tolerance) ],
                           now))

\* The last call was validate on a token whose payload has properties to
\* read.
Validated == call.op = "validate" /\ CanReadProperty(decoded.payload)

\* The value the last call's policy gives a field: the one supplied, or
\* else the documented default.
PolicyValue(field, default) ==
  IF call.options[field].given THEN call.options[field].v ELSE default

ToleranceOfCall == PolicyValue("timingTolerance", 0)

\* The allow-list checks of the last call all pass.
AllowListsPass ==
  /\ AllowedBy(PolicyValue("allowableIssuers", JsFalse),
               GetProperty(decoded.payload, K_iss))
  /\ AllowedBy(PolicyValue("allowableSubjects", JsFalse),
               GetProperty(decoded.payload, K_sub))
  /\ AllowedBy(PolicyValue("allowableAudiences", JsFalse),
               GetProperty(decoded.payload, K_aud))

\* The result is the ValidationError with this message.
Rejected(message) == result = Throw("JWTValidationError", message, << >>)

ExpMessages ==
  { "the 'exp' claim was found to be undefined",
    "the 'exp' claim was found to be non-numeric",
    "the 'exp' claim indicates that this JWT is expired" }

\* C11: with the expiration check enabled, validate fails with the
\* 'exp undefined' ValidationError if exp is absent, with the distinct
\* 'exp non-numeric' one if exp is not a number, and otherwise passes the
\* check exactly when exp >= now + timingTolerance (failing as expired for
\* anything smaller); with the check disabled exp is never inspected.
\* (Stated of the calls in which the allow-list checks, which come first,
\* pass.)
C11_ExpirationCheck ==
  (Validated /\ AllowListsPass)
    => LET exp == GetProperty(decoded.payload, K_exp)
       IN  IF ~PolicyValue("validateExpirationTimeClaim", TRUE)
             THEN ~(result.kind = "JWTValidationError" /\
                    result.msg \in ExpMessages)
           ELSE IF exp = Undefined
             THEN Rejected("the 'exp' claim was found to be undefined")
           ELSE IF exp.t # "number"
             THEN Rejected("the 'exp' claim was found to be non-numeric")
           ELSE IF exp.n >= now + ToleranceOfCall
             THEN ~(result.kind = "JWTValidationError" /\
                    result.msg \in ExpMessages)
           ELSE Rejected("the 'exp' claim indicates that this JWT is expired")

C11_Witness ==
  /\ Validated /\ AllowListsPass
  /\ PolicyValue("validateExpirationTimeClaim", TRUE)
  /\ GetProperty(decoded.payload, K_exp) = JNum(now + ToleranceOfCall)
  /\ ToleranceOfCall > 0
  /\ Returned(result)

\* The expiration check of the last call passes.
ExpirationPasses ==
  \/ ~PolicyValue("validateExpirationTimeClaim", TRUE)
  \/ /\ GetProperty(decoded.payload, K_exp).t = "number"
     /\ GetProperty(decoded.payload, K_exp).n >= now + ToleranceOfCall

\* What a check of the not-before shape does with a claim value: the
\* message of the error it raises, or "pass".
NotBeforeShape(value, name, rejection) ==
  IF value = Undefined
    THEN "the '" \o name \o "' claim was found to be undefined"
  ELSE IF value.t # "number"
    THEN "the '" \o name \o "' claim was found to be non-numeric"
  ELSE IF now - ToleranceOfCall < value.n THEN rejection
  ELSE "pass"

NbfOutcome ==
  IF PolicyValue("validateNotBeforeClaim", TRUE)
  THEN NotBeforeShape(GetProperty(decoded.payload, K_nbf), "nbf",
         "the 'nbf' claim indicates that this JWT is not yet valid")
  ELSE "pass"

IatOutcome ==
  IF PolicyValue("validateIssuedAtClaim", FALSE)
  THEN NotBeforeShape(GetProperty(decoded.payload, K_iat), "iat",
         "the 'iat' claim indicates that this JWT has not been issued yet")
  ELSE "pass"

C13_UnsupportedAlgorithmError ==
  call.op = "toString"
    => LET alg == GetProperty(jwt.headers, K_alg)
       IN  IF alg.s \in RecognisedIdentifiers \ HmacShaIdentifiers
           THEN /\ result.kind = "UnsupportedAlgorithmError"
                /\ result.arg = alg.s
           ELSE result.kind # "UnsupportedAlgorithmError"

\* The defaults as documented: the three allow-lists disabled, tolerance 0,
\* the exp and nbf checks on, the iat check off.
DocumentedDefaults ==
  [ allowableIssuers |-> JsFalse,
    allowableSubjects |-> JsFalse,
    allowableAudiences |-> JsFalse,
    timingTolerance |-> 0,
    validateExpirationTimeClaim |-> TRUE,
    validateNotBeforeClaim |-> TRUE,
    validateIssuedAtClaim |-> FALSE ]

\* The full policy of the last call: every field the caller supplied, and
\* the documented default for every field omitted.
MergedPolicyOfCall ==
  [ f \in OptionFields |-> PolicyValue(f, DocumentedDefaults[f]) ]

\* C14: validate(secret, partialPolicy) behaves as validation under the
\* full policy that takes every field the caller supplied and the default
\* for every field omitted: a supplied field wins over its default and a
\* default never overrides a supplied field.  With an empty policy a token
\* lacking exp or nbf is rejected, and a token lacking iat is not rejected
\* for that.
C14_PartialPolicyMergesOverDefaults ==
  call.op = "validate"
    => /\ result =
            FirstThrow(ChecksInOrder(decoded, MergedPolicyOfCall, now), 1)
       /\ (call.options = EmptyOptions /\ CanReadProperty(decoded.payload))
            => /\ GetProperty(decoded.payload, K_exp) = Undefined
                    => Rejected("the 'exp' claim was found to be undefined")
               /\ (ExpirationPasses /\
                   GetProperty(decoded.payload, K_nbf) = Undefined)
                    => Rejected("the 'nbf' claim was found to be undefined")
               /\ ~Rejected("the 'iat' claim was found to be undefined")

C14_Witness ==
  /\ call.op = "validate"
  /\ call.options =
       [ EmptyOptions EXCEPT !.validateExpirationTimeClaim = Given(FALSE),
                             !.validateIssuedAtClaim = Given(TRUE) ]
  /\ GetProperty(decoded.payload, K_exp) = Undefined
  /\ GetProperty(decoded.payload, K_nbf) = JNum(1)
  /\ GetProperty(decoded.payload, K_iat) = Undefined
  /\ now >= 1
  /\ Rejected("the 'iat' claim was found to be undefined")

\* C15: for every token string that decodes without validation, the
\* decoded token gives back the three segments of the trimmed input:
\* getEncodedHeaders() is the text before the first dot, getEncodedPayload()
\* the text between the first and the second dot, getSignature() all that
\* follows the second dot as received, so that decode(s, false).toString()
\* is s without its surrounding whitespace.
C15_DecodedTokenGivesBackItsSegments ==
  (call.op \in DecodeOps /\ ~call.validateBeforeReturn /\ Returned(result))
    => LET t == Trim(wire)
           first == Least(Dots(t))
           second == Least(Dots(t) \ { first })
       IN  /\ getDecodedSignature(result.value)
                = SubSeq(t, second + 1, Len(t))
           /\ getEncodedHeaders(result.value) = SubSeq(t, 1, first - 1)
           /\ getEncodedPayload(result.value)
                = SubSeq(t, first + 1, second - 1)
           /\ decodedToString(result.value) = t

\* The last call was toString on a constructed token with a supported
\* algorithm.
SerializedSupported ==
  /\ call.op = "toString"
  /\ GetProperty(jwt.headers, K_alg).t = "string"
  /\ GetProperty(jwt.headers, K_alg).s \in HmacShaIdentifiers

\* The signature segment of the token string at hand.
ReceivedSignature ==
  LET t == Trim(wire)
      second == Least(Dots(t) \ { Least(Dots(t)) })
  IN  SubSeq(t, second + 1, Len(t))

\* C16: for a constructed JSONWebToken with a supported algorithm, after
\* any sequence of setPayloadField calls and of writes through the mapping
\* getPayload returns, toString() is getEncodedHeaders() + "." +
\* getEncodedPayload() + "." + the keyed hash of these two as they are now:
\* the signature emitted is never stale.  A DecodedJSONWebToken keeps the
\* signature it was received with under the same mutation.
C16_SignatureOfCurrentPayload ==
  /\ SerializedSupported
       => LET signed == JoinWithDots(<< getEncodedHeaders(jwt),
                                        getEncodedPayload(jwt) >>)
          IN  result =
                Return(signed \o << "." >> \o
                       HashingFunction(GetProperty(jwt.headers, K_alg).s,
                                       jwt.secret, signed))
  /\ (call.op = "setPayloadField" /\ decoded # NoToken)
       => getDecodedSignature(decoded) = ReceivedSignature

C16_Witness ==
  /\ SerializedSupported
  /\ GetProperty(jwt.payload, K_iss) = JStr(Evil)
  /\ GetProperty(jwt.payload, K_exp) = JNum(MaxNow)
  /\ GetProperty(jwt.payload, K_nbf) = JNum(0)
  /\ Returned(result)

=============================================================================
